---- MODULE Spec2Model ----
(***************************************************************************)
(* A model of the Apple Market Analyzer (src/Daniru): the loader/cleaner   *)
(* of utils.py and app.py, the aggregations of the dashboard pages, the    *)
(* Streamlit result cache in front of the loader, and the three batch jobs *)
(* that hand a plot and a summary to the dashboard through the file        *)
(* system.                                                                 *)
(*                                                                         *)
(* A CSV file is a table of text tokens.  pandas turns tokens into typed   *)
(* cells; the model keeps that conversion (read_csv's column inference,    *)
(* to_numeric, to_datetime, str.lower) as operators on the characters of   *)
(* the token.  Amounts are integers: the token sets hold integer-valued    *)
(* numerals only.                                                          *)
(***************************************************************************)
EXTENDS Integers, Sequences, FiniteSets, TLC

VARIABLES
    appleSales,  \* the Apple rows a batch job filtered out of the file
    emptySummaries, \* the topics whose summary file, when it exists, has no text
    labels,      \* the Season column apply(label_season) gave the Apple subset
    launcher,    \* run_dashboard.py: the environment and how far main has come
    share,       \* the market share per brand of the cleaned table
    csv,         \* the input file Walmart_customer_fixed.csv
    loaded,      \* what utils.load_and_clean_data returned, if it ran
    recleaned,   \* the cleaning steps applied again to the cleaned table
    agg,         \* the last date-keyed aggregation of the Apple subset
    cacheData,   \* the st.cache_data entry of app.load_data
    cacheApple,  \* the st.cache_data entry of app.load_apple_data
    nav,         \* the last run of the dashboard script: page, result, charts
    job,         \* the batch script under study
    pc,          \* where the current run of the batch script stands
    run,         \* the number of the current (or last) run of the script
    outcome,     \* how the last run ended
    fits,        \* the history lengths this run handed to Prophet.fit
    forecast,    \* the forecast frames this run got from Prophet.predict
    before,      \* the output files as they were when this run started
    summarized,  \* the runs whose summary was written
    plotFile,    \* per topic, the run that wrote the forecast PNG (0: none)
    summaryFile, \* per topic, the run that wrote the summary text (0: none)
    view         \* the last load of the Predictions page

cleanVars == <<loaded, recleaned, agg>>
dashVars == <<cacheData, cacheApple, nav>>
batchVars ==
    <<job, pc, run, outcome, fits, forecast, before, summarized, plotFile, summaryFile, view>>
extraVars == <<labels, launcher, share, appleSales, emptySummaries>>

vars == <<csv, cleanVars, dashVars, batchVars, extraVars>>

(***************************************************************************)
(* Bounds of the model.                                                    *)
(***************************************************************************)
MaxRows == 3

(***************************************************************************)
(* Text.                                                                   *)
(***************************************************************************)
UpperAlphabet == "ABCDEFGHIJKLMNOPQRSTUVWXYZ"
LowerAlphabet == "abcdefghijklmnopqrstuvwxyz"
DigitChars == "0123456789"

CharAt(s, i) == SubSeq(s, i, i)

LowerChar(c) ==
    IF \E i \in 1..26 : CharAt(UpperAlphabet, i) = c
    THEN CharAt(LowerAlphabet, CHOOSE i \in 1..26 : CharAt(UpperAlphabet, i) = c)
    ELSE c

\* The order of two texts as Python compares them.
CodeChars == " -.0123456789ABCDEFGHIJKLMNOPQRSTUVWXYZ_abcdefghijklmnopqrstuvwxyz"
CharCode(c) == CHOOSE i \in 1..Len(CodeChars) : CharAt(CodeChars, i) = c

RECURSIVE StrLess(_, _)
StrLess(a, b) ==
    IF Len(b) = 0 THEN FALSE
    ELSE IF Len(a) = 0 THEN TRUE
    ELSE IF CharAt(a, 1) # CharAt(b, 1)
         THEN CharCode(CharAt(a, 1)) < CharCode(CharAt(b, 1))
    ELSE StrLess(SubSeq(a, 2, Len(a)), SubSeq(b, 2, Len(b)))

RECURSIVE StrLower(_)
StrLower(s) ==
    IF Len(s) = 0 THEN ""
    ELSE LowerChar(CharAt(s, 1)) \o StrLower(SubSeq(s, 2, Len(s)))

IsDigit(c) == \E i \in 1..10 : CharAt(DigitChars, i) = c
DigitVal(c) == (CHOOSE i \in 1..10 : CharAt(DigitChars, i) = c) - 1
AllDigits(s) == \A i \in 1..Len(s) : IsDigit(CharAt(s, i))

RECURSIVE ParseInt(_)
ParseInt(s) ==
    IF Len(s) = 0 THEN 0
    ELSE 10 * ParseInt(SubSeq(s, 1, Len(s) - 1)) + DigitVal(CharAt(s, Len(s)))

\* The place of the decimal point of a numeral, 0 when it has none.
DotAt(s) ==
    IF \E i \in 1..Len(s) : CharAt(s, i) = "."
    THEN CHOOSE i \in 1..Len(s) :
            /\ CharAt(s, i) = "."
            /\ \A j \in 1..(i - 1) : CharAt(s, j) # "."
    ELSE 0

\* A token pandas parses as a number: digits, then optionally a point and
\* more digits.
IsNumeric(s) ==
    LET p == DotAt(s) IN
    IF p = 0 THEN Len(s) > 0 /\ AllDigits(s)
    ELSE /\ p > 1
         /\ AllDigits(SubSeq(s, 1, p - 1))
         /\ AllDigits(SubSeq(s, p + 1, Len(s)))

\* The value of a numeral whose fraction is zero.
ToNumber(s) ==
    LET p == DotAt(s) IN
    IF p = 0 THEN ParseInt(s) ELSE ParseInt(SubSeq(s, 1, p - 1))

(***************************************************************************)
(* Dates.  A date is the integer yyyymmdd.                                 *)
(***************************************************************************)
YearOf(d) == d \div 10000
MonthOf(d) == (d \div 100) % 100
DayOf(d) == d % 100

IsLeap(y) == (y % 4 = 0 /\ y % 100 # 0) \/ y % 400 = 0

DaysInMonth(y, m) ==
    IF m = 2 THEN (IF IsLeap(y) THEN 29 ELSE 28)
    ELSE IF m \in {4, 6, 9, 11} THEN 30 ELSE 31

\* A token to_datetime parses: YYYY-MM-DD naming a day of the calendar.
IsDateToken(s) ==
    /\ Len(s) = 10
    /\ CharAt(s, 5) = "-" /\ CharAt(s, 8) = "-"
    /\ AllDigits(SubSeq(s, 1, 4))
    /\ AllDigits(SubSeq(s, 6, 7))
    /\ AllDigits(SubSeq(s, 9, 10))
    /\ LET y == ParseInt(SubSeq(s, 1, 4))
           m == ParseInt(SubSeq(s, 6, 7))
           d == ParseInt(SubSeq(s, 9, 10))
       IN m \in 1..12 /\ d \in 1..DaysInMonth(y, m)

ParseDate(s) ==
    10000 * ParseInt(SubSeq(s, 1, 4)) + 100 * ParseInt(SubSeq(s, 6, 7))
        + ParseInt(SubSeq(s, 9, 10))

WeekdayNames ==
    <<"Monday", "Tuesday", "Wednesday", "Thursday", "Friday", "Saturday",
      "Sunday">>

\* Timestamp.day_name(): the day of the week of a calendar date.
DayName(d) ==
    LET t == <<0, 3, 2, 5, 0, 3, 5, 1, 4, 6, 2, 4>>
        m == MonthOf(d)
        y == IF m < 3 THEN YearOf(d) - 1 ELSE YearOf(d)
        w == (y + (y \div 4) - (y \div 100) + (y \div 400) + t[m] + DayOf(d)) % 7
    IN WeekdayNames[((w + 6) % 7) + 1]

(***************************************************************************)
(* Cells and tables.  A cell is null (NaN, NaT), a text, a number or a     *)
(* date.  A table is its set of columns and its rows, each row a function  *)
(* on the columns.                                                         *)
(***************************************************************************)
Null == [k |-> "null", n |-> 0, s |-> ""]
Str(t) == [k |-> "str", n |-> 0, s |-> t]
Num(i) == [k |-> "num", n |-> i, s |-> ""]
Date(d) == [k |-> "date", n |-> d, s |-> ""]

IsNull(c) == c.k = "null"

Table(cols, rows) == [cols |-> cols, rows |-> rows]
EmptyTable == Table({}, <<>>)

NRows(t) == Len(t.rows)
Column(t, c) == [i \in 1..NRows(t) |-> t.rows[i][c]]
NullCount(t, c) == Cardinality({i \in 1..NRows(t) : IsNull(t.rows[i][c])})

\* The rows of t at the indices of I, in order.
RECURSIVE RowsAt(_, _, _)
RowsAt(rows, I, i) ==
    IF i > Len(rows) THEN <<>>
    ELSE IF i \in I THEN <<rows[i]>> \o RowsAt(rows, I, i + 1)
    ELSE RowsAt(rows, I, i + 1)

\* df[mask]: the rows that satisfy the mask.
Filter(t, Keep(_)) ==
    Table(t.cols, RowsAt(t.rows, {i \in 1..NRows(t) : Keep(t.rows[i])}, 1))

\* Apply f to the cells of column c, when the table has it.
MapColumn(t, c, F(_)) ==
    IF c \notin t.cols THEN t
    ELSE Table(t.cols,
               [i \in 1..NRows(t) |-> [t.rows[i] EXCEPT ![c] = F(@)]])

(***************************************************************************)
(* The input file: missing, unreadable (read_csv raises something other    *)
(* than FileNotFoundError, as it does for a file of zero bytes), or a      *)
(* table of tokens, the empty token being an empty field.                  *)
(***************************************************************************)
MissingFile == [st |-> "missing", cols |-> {}, rows |-> <<>>]
UnreadableFile == [st |-> "unreadable", cols |-> {}, rows |-> <<>>]
CsvFile(cols, rows) == [st |-> "ok", cols |-> cols, rows |-> rows]

\* read_csv types a column as numbers when every field of it that is not
\* empty is a numeral; otherwise its fields stay text.  Empty fields are NaN.
ColumnIsNumeric(f, c) ==
    \A i \in 1..Len(f.rows) : f.rows[i][c] = "" \/ IsNumeric(f.rows[i][c])

ReadCell(f, c, tok) ==
    IF tok = "" THEN Null
    ELSE IF ColumnIsNumeric(f, c) THEN Num(ToNumber(tok))
    ELSE Str(tok)

ReadCsv(f) ==
    Table(f.cols,
          [i \in 1..Len(f.rows) |-> [c \in f.cols |-> ReadCell(f, c, f.rows[i][c])]])

(***************************************************************************)
(* The cleaning steps.                                                     *)
(***************************************************************************)
\* DataFrame.drop_duplicates(): the first of each group of equal rows stays.
DropDuplicates(t) ==
    Table(t.cols,
          RowsAt(t.rows,
                 {i \in 1..NRows(t) : \A j \in 1..(i - 1) : t.rows[j] # t.rows[i]},
                 1))

\* A column stays only when its nulls are fewer than half of the rows.
KeepsColumnBelowHalf(t, c) == 2 * NullCount(t, c) < NRows(t)

\* A column stays when its nulls are at most half of the rows.
KeepsColumn(t, c) == 2 * NullCount(t, c) <= NRows(t)

DropSparseColumns(t) ==
    LET keep == {c \in t.cols : KeepsColumn(t, c)}
    IN Table(keep, [i \in 1..NRows(t) |-> [c \in keep |-> t.rows[i][c]]])

\* pd.to_datetime(errors="coerce") of one cell.
ToDatetime(c) ==
    IF c.k = "str" THEN (IF IsDateToken(c.s) THEN Date(ParseDate(c.s)) ELSE Null)
    ELSE c

\* pd.to_numeric(errors="coerce") of one cell.
ToNumeric(c) ==
    IF c.k = "str" THEN (IF IsNumeric(c.s) THEN Num(ToNumber(c.s)) ELSE Null)
    ELSE c

CoerceTypes(t) ==
    MapColumn(MapColumn(MapColumn(MapColumn(t,
        "Purchase_Date", ToDatetime),
        "Market_Price", ToNumeric),
        "Purchase_Amount", ToNumeric),
        "Rating", ToNumeric)

FillNaWithZero(c) == IF IsNull(c) THEN Num(0) ELSE c

\* Series.fillna(1) of one cell.
FillNa(c) == IF IsNull(c) THEN Num(1) ELSE c

FillPurchaseAmount(t) == MapColumn(t, "Purchase_Amount", FillNa)

\* The steps between reading the file and filtering the brand.
CleanSteps(t) ==
    FillPurchaseAmount(CoerceTypes(DropSparseColumns(DropDuplicates(t))))

\* df[df["Brand"].str.lower() == "apple"]: a null brand compares unequal.
IsAppleBrand(row) == row["Brand"].k = "str" /\ StrLower(row["Brand"].s) = "apple"

AppleSubset(df) == Filter(df, IsAppleBrand)

(***************************************************************************)
(* Results of the loaders: a (table, Apple subset) pair, the null pair     *)
(* (None, None), or an exception that leaves the function.                 *)
(***************************************************************************)
NotRun == [k |-> "notrun", exc |-> "", df |-> EmptyTable, apple |-> EmptyTable]
NonePair == [k |-> "none", exc |-> "", df |-> EmptyTable, apple |-> EmptyTable]
Pair(df, apple) == [k |-> "pair", exc |-> "", df |-> df, apple |-> apple]
Raised(e) == [k |-> "raise", exc |-> e, df |-> EmptyTable, apple |-> EmptyTable]

\* utils.load_and_clean_data: every exception ends in (None, None).
LoadAndCleanData(f) ==
    IF f.st # "ok" THEN NonePair
    ELSE LET df == CleanSteps(ReadCsv(f)) IN
         IF "Brand" \notin df.cols THEN NonePair
         ELSE Pair(df, AppleSubset(df))

(***************************************************************************)
(* The date-keyed aggregations of the Apple subset.  An aggregation is the *)
(* sequence of its buckets, each a key and the sum of Purchase_Amount over *)
(* the rows of that key; a bucket that reindex added for a key without     *)
(* rows is not present (NaN).                                              *)
(***************************************************************************)
Bucket(key, present, v) == [key |-> key, present |-> present, v |-> v]
Made(kind, buckets) == [kind |-> kind, made |-> TRUE, buckets |-> buckets]
NotMade(kind) == [kind |-> kind, made |-> FALSE, buckets |-> <<>>]

\* Series.sum() of Purchase_Amount over the rows of I; NaN counts as 0.
RECURSIVE SumAmount(_, _)
SumAmount(t, I) ==
    IF I = {} THEN 0
    ELSE LET i == CHOOSE x \in I : TRUE
             c == t.rows[i]["Purchase_Amount"]
         IN (IF c.k = "num" THEN c.n ELSE 0) + SumAmount(t, I \ {i})

HasDate(row) == row["Purchase_Date"].k = "date"
AnyDate(t) == \E i \in 1..NRows(t) : HasDate(t.rows[i])

\* create_weekday_analysis without its reindex: the weekdays that have
\* rows, in the order of the week.
WeekdayAnalysisNoReindex(t) ==
    IF "Purchase_Date" \notin t.cols \/ "Purchase_Amount" \notin t.cols
    THEN NotMade("weekday")
    ELSE LET on(w) == {i \in 1..NRows(t) :
                         /\ HasDate(t.rows[i])
                         /\ DayName(t.rows[i]["Purchase_Date"].n) = WeekdayNames[w]}
             all == [w \in 1..7 |-> Bucket(WeekdayNames[w], TRUE, SumAmount(t, on(w)))]
         IN Made("weekday",
                 SelectSeq(all, LAMBDA b :
                     \E i \in 1..NRows(t) :
                         /\ HasDate(t.rows[i])
                         /\ DayName(t.rows[i]["Purchase_Date"].n) = b.key))

\* groupby("Weekday") leaves out the rows whose weekday is NaN; reindex
\* then lists the seven days in order.
WeekdayAnalysis(t) ==
    IF "Purchase_Date" \notin t.cols \/ "Purchase_Amount" \notin t.cols
    THEN NotMade("weekday")
    ELSE Made("weekday",
              [w \in 1..7 |->
                  LET I == {i \in 1..NRows(t) :
                              /\ HasDate(t.rows[i])
                              /\ DayName(t.rows[i]["Purchase_Date"].n) = WeekdayNames[w]}
                  IN Bucket(WeekdayNames[w], I # {}, SumAmount(t, I))])

\* Months are counted from year 0.
MonthIndex(d) == 12 * YearOf(d) + MonthOf(d) - 1
MonthLabel(x) == 100 * (x \div 12) + (x % 12) + 1

\* groupby(pd.Grouper(key="Purchase_Date", freq="M")): one bin for every
\* month from the first dated row to the last, the rows without a date
\* in none of them.
MonthlyTrends(t) ==
    IF "Purchase_Date" \notin t.cols \/ "Purchase_Amount" \notin t.cols
    THEN NotMade("monthly")
    ELSE IF ~AnyDate(t) THEN NotMade("monthly")
    ELSE LET dated == {i \in 1..NRows(t) : HasDate(t.rows[i])}
             idx(i) == MonthIndex(t.rows[i]["Purchase_Date"].n)
             lo == CHOOSE x \in {idx(i) : i \in dated} :
                      \A i \in dated : x <= idx(i)
             hi == CHOOSE x \in {idx(i) : i \in dated} :
                      \A i \in dated : x >= idx(i)
         IN Made("monthly",
                 [b \in 1..(hi - lo + 1) |->
                     LET I == {i \in dated : idx(i) = lo + b - 1}
                     IN Bucket(MonthLabel(lo + b - 1), TRUE, SumAmount(t, I))])

SeasonNames == <<"Back-to-School", "Christmas", "New Year", "Other">>

\* label_season with the first week of January one day short.
LabelSeasonShortWeek(row) ==
    LET c == row["Purchase_Date"]
        dated == c.k = "date"
        m == MonthOf(c.n)
        d == DayOf(c.n)
    IN IF dated /\ m = 1 /\ d < 7 THEN "New Year"
       ELSE IF dated /\ m = 12 /\ d >= 20 THEN "Christmas"
       ELSE IF dated /\ m \in {8, 9} /\ (m = 8 \/ (m = 9 /\ d <= 15))
            THEN "Back-to-School"
       ELSE "Other"

\* label_season: Month and Day are NaN for a row without a date, and every
\* comparison with NaN is false.
LabelSeason(row) ==
    LET c == row["Purchase_Date"]
        dated == c.k = "date"
        m == MonthOf(c.n)
        d == DayOf(c.n)
    IN IF dated /\ m = 1 /\ d <= 7 THEN "New Year"
       ELSE IF dated /\ m = 12 /\ d >= 20 THEN "Christmas"
       ELSE IF dated /\ m \in {8, 9} /\ (m = 8 \/ (m = 9 /\ d <= 15))
            THEN "Back-to-School"
       ELSE "Other"

\* The buckets of bs in descending order of value; equal values keep the
\* order of their keys.
RECURSIVE SortDescending(_)
SortDescending(bs) ==
    IF Len(bs) = 0 THEN <<>>
    ELSE LET top == CHOOSE i \in 1..Len(bs) :
                       /\ \A j \in 1..Len(bs) : bs[j].v <= bs[i].v
                       /\ \A j \in 1..(i - 1) : bs[j].v < bs[i].v
         IN <<bs[top]>> \o
            SortDescending(SubSeq(bs, 1, top - 1) \o SubSeq(bs, top + 1, Len(bs)))

\* groupby("Season") has a bucket for each label some row carries.
SeasonBuckets(t) ==
    LET rowsOf(s) == {i \in 1..NRows(t) : LabelSeason(t.rows[i]) = s}
        all == [s \in 1..4 |->
                   Bucket(SeasonNames[s], TRUE, SumAmount(t, rowsOf(SeasonNames[s])))]
    IN SelectSeq(all, LAMBDA b : rowsOf(b.key) # {})

SeasonalAnalysis(t) ==
    IF "Purchase_Date" \notin t.cols \/ "Purchase_Amount" \notin t.cols
    THEN NotMade("season")
    ELSE IF ~AnyDate(t) THEN NotMade("season")
    ELSE Made("season", SortDescending(SeasonBuckets(t)))

\* The sum over the buckets of an aggregation.
RECURSIVE BucketTotal(_)
BucketTotal(bs) ==
    IF Len(bs) = 0 THEN 0
    ELSE (IF bs[1].present THEN bs[1].v ELSE 0) + BucketTotal(Tail(bs))

\* The brands of a table: groupby("Brand") has no group for a null brand.
BrandsOf(df) == {df.rows[i]["Brand"] : i \in 1..NRows(df)} \ {Null}

BrandTotal(df, b) == SumAmount(df, {i \in 1..NRows(df) : df.rows[i]["Brand"] = b})

RECURSIVE SumOfTotals(_, _)
SumOfTotals(df, B) ==
    IF B = {} THEN 0
    ELSE LET b == CHOOSE x \in B : TRUE
         IN BrandTotal(df, b) + SumOfTotals(df, B \ {b})

\* The brands in the order groupby lists them.
RECURSIVE SortBrands(_)
SortBrands(B) ==
    IF B = {} THEN <<>>
    ELSE LET b == CHOOSE x \in B : \A y \in B \ {x} : StrLess(x.s, y.s)
         IN <<b>> \o SortBrands(B \ {b})

\* brand_share / brand_share.sum() * 100 with every total 1 too high.
MarketShareOffByOne(df) ==
    IF "Brand" \notin df.cols \/ "Purchase_Amount" \notin df.cols
    THEN NotMade("share")
    ELSE LET names == SortBrands(BrandsOf(df))
             grand == SumOfTotals(df, BrandsOf(df))
         IN Made("share",
                 SortDescending([i \in 1..Len(names) |->
                     [key |-> names[i].s, present |-> grand # 0,
                      v |-> 100 * (BrandTotal(df, names[i]) + 1), of |-> grand]]))

\* create_market_share_chart: a brand's share is 100 * v / of per cent; it
\* is NaN (not present) when the total of all brands is 0.
MarketShare(df) ==
    IF "Brand" \notin df.cols \/ "Purchase_Amount" \notin df.cols
    THEN NotMade("share")
    ELSE LET names == SortBrands(BrandsOf(df))
             grand == SumOfTotals(df, BrandsOf(df))
         IN Made("share",
                 SortDescending([i \in 1..Len(names) |->
                     [key |-> names[i].s, present |-> grand # 0,
                      v |-> 100 * BrandTotal(df, names[i]), of |-> grand]]))

(***************************************************************************)
(* The dashboard (app.py).  st.cache_data keeps the value a function       *)
(* returned, under the function's arguments; load_data and load_apple_data *)
(* take none, so each has one entry.  A call that raises stores nothing.   *)
(***************************************************************************)
NoEntry == [hit |-> FALSE, val |-> NotRun]
Entry(v) == [hit |-> TRUE, val |-> v]

\* A call of a function that st.cache_data does not memoize: the body runs
\* every time.
CalledAfresh(entry, body) ==
    [res |-> body,
     entry |-> IF body.k = "raise" THEN NoEntry ELSE Entry(body),
     ran |-> TRUE]

\* A call through the cache: the result, the entry afterwards, and whether
\* the function body ran.
Cached(entry, body) ==
    IF entry.hit THEN [res |-> entry.val, entry |-> entry, ran |-> FALSE]
    ELSE [res |-> body,
          entry |-> IF body.k = "raise" THEN NoEntry ELSE Entry(body),
          ran |-> TRUE]

Frame(df) == [k |-> "df", exc |-> "", df |-> df, apple |-> EmptyTable]
NoFrame == [k |-> "nodf", exc |-> "", df |-> EmptyTable, apple |-> EmptyTable]

\* load_data without its except clause.
LoadDataBodyUncaught(f) ==
    IF f.st = "missing" THEN Raised("FileNotFoundError")
    ELSE IF f.st = "unreadable" THEN Raised("EmptyDataError")
    ELSE Frame(ReadCsv(f))

\* The body of app.load_data: only FileNotFoundError is caught.
LoadDataBody(f) ==
    IF f.st = "missing" THEN NoFrame
    ELSE IF f.st = "unreadable" THEN Raised("EmptyDataError")
    ELSE Frame(ReadCsv(f))

LoadData(f, entry) == Cached(entry, LoadDataBody(f))

\* load_apple_data without its fillna(1).
LoadAppleDataBodyUnfilled(d) ==
    IF d.k = "raise" THEN d
    ELSE IF d.k = "nodf" THEN NonePair
    ELSE LET df == CoerceTypes(DropSparseColumns(DropDuplicates(d.df))) IN
         IF "Brand" \notin df.cols THEN Raised("KeyError")
         ELSE Pair(df, AppleSubset(df))

\* The body of app.load_apple_data, given what load_data gave it.
LoadAppleDataBody(d) ==
    IF d.k = "raise" THEN d
    ELSE IF d.k = "nodf" THEN NonePair
    ELSE LET df == CleanSteps(d.df) IN
         IF "Brand" \notin df.cols THEN Raised("KeyError")
         ELSE Pair(df, AppleSubset(df))

\* A call of load_apple_data: the result, both entries afterwards, and the
\* number of times read_csv was called.
LoadAppleData(f, entryData, entryApple) ==
    LET d == LoadData(f, entryData)
        a == Cached(entryApple, LoadAppleDataBody(d.res))
    IN [res |-> a.res,
        cacheData |-> IF a.ran THEN d.entry ELSE entryData,
        cacheApple |-> a.entry,
        reads |-> IF a.ran /\ d.ran THEN 1 ELSE 0]

(***************************************************************************)
(* The pages that use the table.  A page is a sequence of sections; each   *)
(* shows charts or raises, and an exception ends the script run with the   *)
(* charts shown so far.                                                    *)
(***************************************************************************)
TablePages == {"Overview", "Feature Analysis", "Market Insights"}

Shows(charts) == [charts |-> charts, exc |-> ""]
Raises(e) == [charts |-> {}, exc |-> e]

RECURSIVE RenderSections(_)
RenderSections(secs) ==
    IF Len(secs) = 0 THEN Shows({})
    ELSE IF secs[1].exc # "" THEN secs[1]
    ELSE LET rest == RenderSections(Tail(secs))
         IN [charts |-> secs[1].charts \cup rest.charts, exc |-> rest.exc]

\* A chart that sums Purchase_Amount per group, behind a guard that does
\* not ask for the Purchase_Amount column.
SumsAmount(guard, df, charts) ==
    IF ~guard THEN Shows({})
    ELSE IF "Purchase_Amount" \notin df.cols THEN Raises("KeyError")
    ELSE Shows(charts)

OverviewPage(df, apple) ==
    RenderSections(<<
        IF NRows(df) = 0 THEN Raises("ZeroDivisionError") ELSE Shows({"key_metrics"}),
        IF "Brand" \in df.cols /\ "Purchase_Amount" \in df.cols
            THEN Shows({"market_share"}) ELSE Shows({}),
        IF "Rating" \in apple.cols
            THEN Shows({"ratings_distribution"}) ELSE Shows({}) >>)

\* "Apple" in disc_sales.index: some row of brand Apple has a discount value.
AppleInDiscountIndex(df) ==
    \E i \in 1..NRows(df) :
        /\ df.rows[i]["Brand"] = Str("Apple")
        /\ ~IsNull(df.rows[i]["Discount_Applied"])

FeatureAnalysisPage(df, apple) ==
    RenderSections(<<
        IF "City" \in apple.cols /\ "Purchase_Amount" \in apple.cols
            THEN Shows({"top_cities"}) ELSE Shows({}),
        IF "Market_Price" \in apple.cols /\ "Purchase_Amount" \in apple.cols
            THEN Shows({"price_sales_scatter"}) ELSE Shows({}),
        SumsAmount("Discount_Applied" \in df.cols, df,
                   IF "Discount_Applied" \in df.cols /\ AppleInDiscountIndex(df)
                       THEN {"discount_impact"} ELSE {}),
        SumsAmount("Purchase_Date" \in apple.cols /\ AnyDate(apple), apple,
                   {"monthly_trend", "weekday_sales"}) >>)

MarketInsightsPage(df, apple) ==
    RenderSections(<<
        SumsAmount("Purchase_Date" \in apple.cols /\ AnyDate(apple), apple,
                   {"seasonal_sales"}),
        SumsAmount("Product_Category" \in apple.cols, apple, {"category_sales"}),
        SumsAmount("Age_Group" \in apple.cols, apple, {"age_group_sales"}) >>)

\* One of the table pages, given what load_apple_data gave the script.
RenderPage(page, res) ==
    IF res.k = "raise" THEN Raises(res.exc)
    ELSE IF res.k # "pair" THEN Shows({})
    ELSE CASE page = "Overview" -> OverviewPage(res.df, res.apple)
           [] page = "Feature Analysis" -> FeatureAnalysisPage(res.df, res.apple)
           [] page = "Market Insights" -> MarketInsightsPage(res.df, res.apple)

(***************************************************************************)
(* The batch jobs (apple_ratings.py, price_elasticity.py,                  *)
(* product_domination.py).  Each reads the file, keeps the Apple rows,     *)
(* builds monthly series, fits Prophet to each, saves a plot and then      *)
(* writes a summary.                                                       *)
(***************************************************************************)
Jobs == {"apple_ratings", "price_elasticity", "product_domination"}
Topics == {"ratings", "sales", "price_elasticity", "product_domination"}

TopicOf(j) == IF j = "apple_ratings" THEN "ratings" ELSE j

\* str.contains('apple') of a cell after fillna(''), the case observed.
ContainsAppleCaseSensitive(c) ==
    /\ c.k = "str"
    /\ \E i \in 1..(Len(c.s) - 4) : SubSeq(c.s, i, i + 4) = "apple"

\* str.contains('apple', case=False) of a cell after fillna('').
ContainsApple(c) ==
    /\ c.k = "str"
    /\ \E i \in 1..(Len(c.s) - 4) : StrLower(SubSeq(c.s, i, i + 4)) = "apple"

\* The mask of the brand alone.
IsAppleSaleBrandOnly(row) == ContainsApple(row["Brand"])

\* mask_brand | mask_product.
IsAppleSale(row) == ContainsApple(row["Brand"]) \/ ContainsApple(row["Product_Name"])

\* The Apple rows of the file a batch job read.
AppleSales(f) == Filter(MapColumn(ReadCsv(f), "Purchase_Date", ToDatetime), IsAppleSale)

DatedRows(t) == {i \in 1..NRows(t) : HasDate(t.rows[i])}
MonthOfRow(t, i) == MonthIndex(t.rows[i]["Purchase_Date"].n)
FirstMonth(t) ==
    CHOOSE x \in {MonthOfRow(t, i) : i \in DatedRows(t)} :
        \A i \in DatedRows(t) : x <= MonthOfRow(t, i)
LastMonth(t) ==
    CHOOSE x \in {MonthOfRow(t, i) : i \in DatedRows(t)} :
        \A i \in DatedRows(t) : x >= MonthOfRow(t, i)

\* A point of a monthly series: y is the sum v, or the mean v / cnt, and is
\* NaN when not present.
Point(month, present, v, cnt) ==
    [key |-> MonthLabel(month), present |-> present, v |-> v, cnt |-> cnt]

RECURSIVE SumOf(_, _, _)
SumOf(t, c, I) ==
    IF I = {} THEN 0
    ELSE LET i == CHOOSE x \in I : TRUE
         IN (IF t.rows[i][c].k = "num" THEN t.rows[i][c].n ELSE 0)
                + SumOf(t, c, I \ {i})

\* resample('ME')[c].sum(): a point for every month from the first dated
\* row to the last, 0 for a month without rows.
ResampleSum(t, c) ==
    IF DatedRows(t) = {} THEN <<>>
    ELSE [b \in 1..(LastMonth(t) - FirstMonth(t) + 1) |->
             LET m == FirstMonth(t) + b - 1
                 I == {i \in DatedRows(t) : MonthOfRow(t, i) = m}
             IN Point(m, TRUE, SumOf(t, c, I), 1)]

\* resample('ME')[c].mean(): NaN for a month without a value of c.
ResampleMean(t, c) ==
    IF DatedRows(t) = {} THEN <<>>
    ELSE [b \in 1..(LastMonth(t) - FirstMonth(t) + 1) |->
             LET m == FirstMonth(t) + b - 1
                 I == {i \in DatedRows(t) :
                          MonthOfRow(t, i) = m /\ t.rows[i][c].k = "num"}
             IN Point(m, I # {}, SumOf(t, c, I), Cardinality(I))]

\* The monthly revenue of one product: a point for each month in which the
\* product has a row.
ProductSeries(t, p) ==
    LET mine == {i \in DatedRows(t) : t.rows[i]["Product_Name"] = p}
        all == IF DatedRows(t) = {} THEN <<>>
               ELSE [b \in 1..(LastMonth(t) - FirstMonth(t) + 1) |->
                       LET m == FirstMonth(t) + b - 1
                           I == {i \in mine : MonthOfRow(t, i) = m}
                       IN Point(m, I # {}, SumOf(t, "Purchase_Amount", I), 1)]
    IN SelectSeq(all, LAMBDA pt : pt.present)

TopN == 5

\* nlargest(5) of the revenue per product: descending revenue, equal
\* revenues in the order of the product names.
RECURSIVE Largest(_, _, _)
Largest(t, names, n) ==
    IF n = 0 \/ names = {} THEN <<>>
    ELSE LET total(p) ==
                 SumOf(t, "Purchase_Amount",
                       {i \in DatedRows(t) : t.rows[i]["Product_Name"] = p})
             best == CHOOSE p \in names :
                        \A q \in names \ {p} :
                            \/ total(q) < total(p)
                            \/ (total(q) = total(p) /\ StrLess(p.s, q.s))
         IN <<best>> \o Largest(t, names \ {best}, n - 1)

TopProducts(t) ==
    Largest(t, {t.rows[i]["Product_Name"] : i \in DatedRows(t)} \ {Null}, TopN)

\* The rows of a history whose y is not NaN.
HistoryLength(series) == Len(SelectSeq(series, LAMBDA pt : pt.present))

\* Prophet.fit raises ValueError on fewer than two rows that are not NaN.
FitRaises(series) == HistoryLength(series) < 2

\* The series a job fits, in the order of its calls of fit.
SeriesToFit(j, t) ==
    CASE j = "apple_ratings" -> <<ResampleMean(t, "Rating")>>
      [] j = "price_elasticity" ->
            <<ResampleSum(t, "Purchase_Amount"), ResampleMean(t, "Market_Price")>>
      [] j = "product_domination" ->
            [i \in 1..Len(TopProducts(t)) |-> ProductSeries(t, TopProducts(t)[i])]

\* The history lengths handed to fit until a call raises, and the exception.
RECURSIVE FitAll(_)
FitAll(series) ==
    IF Len(series) = 0 THEN [fits |-> <<>>, exc |-> ""]
    ELSE IF FitRaises(series[1])
         THEN [fits |-> <<HistoryLength(series[1])>>, exc |-> "ValueError"]
    ELSE LET rest == FitAll(Tail(series))
         IN [fits |-> <<HistoryLength(series[1])>> \o rest.fits, exc |-> rest.exc]

Periods == 6

\* The month index of a month label.
LabelIndex(l) == 12 * (l \div 100) + (l % 100) - 1

\* make_future_dataframe(periods=h, freq='ME') and predict: the dates of the
\* history, every row of the fitted frame counted, then the h month ends
\* after the last of them.
Predict(series, h) ==
    LET last == LabelIndex(series[Len(series)].key)
    IN [i \in 1..(Len(series) + h) |->
           IF i <= Len(series) THEN series[i].key
           ELSE MonthLabel(last + i - Len(series))]

\* frame[frame['ds'] >= last_actual_date]
FromLastActual(ds, last) == SelectSeq(ds, LAMBDA d : d >= last)

\* DataFrame.tail(n)
TailRows(ds, n) == SubSeq(ds, IF Len(ds) > n THEN Len(ds) - n + 1 ELSE 1, Len(ds))

\* What a job got from predict for each series it fitted: the last actual
\* date of the series and the dates of the forecast frame.
ForecastFrames(j, t) ==
    LET series == SeriesToFit(j, t)
    IN [i \in 1..Len(series) |->
           [last |-> series[i][Len(series[i])].key,
            ds |-> Predict(series[i], Periods)]]

\* The dates of the forecast a job puts, as the next 6 months, into its
\* summary (apple_ratings) or into its prompt (the other two).
NextMonthsText(j, frames) ==
    CASE j = "apple_ratings" ->
            <<TailRows(FromLastActual(frames[1].ds, frames[1].last), Periods)>>
      [] j = "price_elasticity" -> <<TailRows(frames[1].ds, Periods)>>
      [] j = "product_domination" ->
            [i \in 1..Len(frames) |-> FromLastActual(frames[i].ds, frames[i].last)]

\* A job from its start to the last statement before it saves the plot.
\* Nothing between the read and the plot is inside a try.
Forecasts(j, f) ==
    IF f.st = "missing"
    THEN [fits |-> <<>>, forecast |-> <<>>, exc |-> "FileNotFoundError"]
    ELSE IF f.st = "unreadable"
    THEN [fits |-> <<>>, forecast |-> <<>>, exc |-> "EmptyDataError"]
    ELSE LET t == AppleSales(f) IN
         IF NRows(t) > 0 /\ DatedRows(t) = {}
         THEN [fits |-> <<>>, forecast |-> <<>>, exc |-> "ValueError"]
         ELSE LET r == FitAll(SeriesToFit(j, t)) IN
              IF j = "product_domination" /\ Len(TopProducts(t)) = 0
              THEN [fits |-> <<>>, forecast |-> <<>>, exc |-> "NameError"]
              ELSE IF r.exc # "" THEN [fits |-> r.fits, forecast |-> <<>>, exc |-> r.exc]
              ELSE [fits |-> r.fits, forecast |-> ForecastFrames(j, t), exc |-> ""]

(***************************************************************************)
(* Values of the variables a specification does not use.                   *)
(***************************************************************************)
NoAgg == NotMade("none")

NoNav ==
    [page |-> "none", res |-> NotRun, charts |-> {}, exc |-> "", reads |-> 0,
     hadData |-> FALSE, hadApple |-> FALSE, later |-> FALSE, fileSt |-> "none"]

NoFiles == [t \in Topics |-> 0]
At(r, p) == [run |-> r, pc |-> p]
NoView ==
    [stage |-> "none", plot |-> NoFiles, summary |-> NoFiles,
     plotAt |-> At(0, "idle"), sumAt |-> At(0, "idle")]

NoLaunch ==
    [pc |-> "none", appPy |-> FALSE, installed |-> {}, stray |-> {}, files |-> {},
     calls |-> <<>>, requirements |-> "none", dataFiles |-> "none", port |-> 0]

ExtraAtRest ==
    /\ labels = <<>> /\ launcher = NoLaunch /\ share = NotMade("share")
    /\ appleSales = NotRun
    /\ emptySummaries = {}
CleanAtRest == loaded = NotRun /\ recleaned = NotRun /\ agg = NoAgg
DashAtRest == cacheData = NoEntry /\ cacheApple = NoEntry /\ nav = NoNav
BatchAtRest ==
    /\ pc = "idle" /\ run = 0 /\ outcome = "none" /\ fits = <<>> /\ forecast = <<>>
    /\ before = [plot |-> NoFiles, summary |-> NoFiles]
    /\ summarized = {}
    /\ plotFile = NoFiles /\ summaryFile = NoFiles
    /\ view = NoView

(***************************************************************************)
(* Inputs of the cleaning specification: files of at most MaxRows rows,    *)
(* each row a well-formed base row with at most one field changed.         *)
(***************************************************************************)
CleanColumns == {"Brand", "Purchase_Date", "Purchase_Amount", "Rating"}

BrandTokens == {"Apple", "apple", "Samsung", ""}
DateTokens == {"2024-01-03", "2024-08-20", "bad", ""}
AmountTokens == {"5", "5.0", "7", "bad", ""}
RatingTokens == {"4", "bad", ""}

BaseRow ==
    [c \in CleanColumns |->
        CASE c = "Brand" -> "Apple"
          [] c = "Purchase_Date" -> "2024-01-03"
          [] c = "Purchase_Amount" -> "5"
          [] c = "Rating" -> "4"]

RowPool ==
    {[BaseRow EXCEPT !["Brand"] = b] : b \in BrandTokens}
        \cup {[BaseRow EXCEPT !["Purchase_Date"] = d] : d \in DateTokens}
        \cup {[BaseRow EXCEPT !["Purchase_Amount"] = a] : a \in AmountTokens}
        \cup {[BaseRow EXCEPT !["Rating"] = r] : r \in RatingTokens}

CleanInputs ==
    {CsvFile(CleanColumns, rows) :
        rows \in UNION {[1..n -> RowPool] : n \in 0..MaxRows}}

(***************************************************************************)
(* The cleaning specification: the loader of utils.py applied to an input  *)
(* file, and the cleaning steps and the aggregations applied to what it    *)
(* returned.                                                               *)
(***************************************************************************)
InitClean ==
    /\ csv \in CleanInputs \cup {MissingFile, UnreadableFile}
    /\ CleanAtRest
    /\ DashAtRest
    /\ job = "none"
    /\ BatchAtRest
    /\ ExtraAtRest

LoadAndClean ==
    /\ loaded = NotRun
    /\ loaded' = LoadAndCleanData(csv)
    /\ UNCHANGED <<extraVars, csv, recleaned, agg, dashVars, batchVars>>

\* The cleaning steps applied to the table the loader returned.
CleanAgain ==
    /\ loaded.k = "pair"
    /\ recleaned = NotRun
    /\ recleaned' = Pair(CleanSteps(loaded.df), EmptyTable)
    /\ UNCHANGED <<extraVars, csv, loaded, agg, dashVars, batchVars>>

\* utils.create_weekday_analysis of the Apple subset.
CreateWeekdayAnalysis ==
    /\ loaded.k = "pair"
    /\ agg' = WeekdayAnalysis(loaded.apple)
    /\ UNCHANGED <<extraVars, csv, loaded, recleaned, dashVars, batchVars>>

\* utils.create_monthly_trends of the Apple subset.
CreateMonthlyTrends ==
    /\ loaded.k = "pair"
    /\ agg' = MonthlyTrends(loaded.apple)
    /\ UNCHANGED <<extraVars, csv, loaded, recleaned, dashVars, batchVars>>

\* utils.create_seasonal_analysis of the Apple subset.
CreateSeasonalAnalysis ==
    /\ loaded.k = "pair"
    /\ agg' = SeasonalAnalysis(loaded.apple)
    /\ UNCHANGED <<extraVars, csv, loaded, recleaned, dashVars, batchVars>>

NextClean ==
    \/ LoadAndClean
    \/ CleanAgain
    \/ CreateWeekdayAnalysis
    \/ CreateMonthlyTrends
    \/ CreateSeasonalAnalysis

SpecClean == InitClean /\ [][NextClean]_vars

(***************************************************************************)
(* Inputs of the dashboard specification: a two-row sample file with at    *)
(* most MaxMissing of its optional columns left out, a file of the header  *)
(* alone, an unreadable file, or no file.                                  *)
(***************************************************************************)
MaxMissing == 1

OptionalColumns ==
    {"Brand", "Purchase_Date", "Purchase_Amount", "Market_Price", "Rating",
     "City", "Product_Category", "Age_Group", "Discount_Applied"}
AllColumns == OptionalColumns \cup {"Product_Name"}

SampleRow(brand, product, date, amount, price, rating, city, age, discount) ==
    [c \in AllColumns |->
        CASE c = "Brand" -> brand
          [] c = "Product_Name" -> product
          [] c = "Purchase_Date" -> date
          [] c = "Purchase_Amount" -> amount
          [] c = "Market_Price" -> price
          [] c = "Rating" -> rating
          [] c = "City" -> city
          [] c = "Product_Category" -> "Electronics"
          [] c = "Age_Group" -> age
          [] c = "Discount_Applied" -> discount]

SampleRows ==
    <<SampleRow("Apple", "iPhone", "2024-01-03", "5", "999", "4", "Austin", "18-25", "Yes"),
      SampleRow("Samsung", "Galaxy", "2024-08-20", "7", "799", "3", "Boston", "26-35", "No")>>

Without(rows, S) ==
    CsvFile(AllColumns \ S,
            [i \in 1..Len(rows) |-> [c \in AllColumns \ S |-> rows[i][c]]])

DashFiles ==
    {Without(SampleRows, S) :
        S \in {X \in SUBSET OptionalColumns : Cardinality(X) <= MaxMissing}}
        \cup {CsvFile(AllColumns, <<>>)}

DashInputs == DashFiles \cup {MissingFile, UnreadableFile}

(***************************************************************************)
(* The dashboard specification: one Streamlit process whose script runs    *)
(* once per navigation, while the input file comes, changes and goes.      *)
(***************************************************************************)
InitDash ==
    /\ csv \in DashInputs
    /\ CleanAtRest
    /\ DashAtRest
    /\ job = "none"
    /\ BatchAtRest
    /\ ExtraAtRest

\* One run of app.py on a page that uses the table.
Navigate(page) ==
    LET call == LoadAppleData(csv, cacheData, cacheApple)
        shown == RenderPage(page, call.res)
    IN /\ cacheData' = call.cacheData
       /\ cacheApple' = call.cacheApple
       /\ nav' = [page |-> page, res |-> call.res, charts |-> shown.charts,
                  exc |-> shown.exc, reads |-> call.reads,
                  hadData |-> cacheData.hit, hadApple |-> cacheApple.hit,
                  later |-> nav.page # "none", fileSt |-> csv.st]
       /\ UNCHANGED <<extraVars, csv, cleanVars, batchVars>>

\* Someone creates, replaces or deletes the input file.
ReplaceFile ==
    /\ csv' \in DashInputs \ {csv}
    /\ loaded' = NotRun
    /\ UNCHANGED <<extraVars, recleaned, agg, dashVars, batchVars>>

\* A call of utils.load_and_clean_data on the file as it is now.
CallLoadAndCleanData ==
    /\ loaded = NotRun
    /\ loaded' = LoadAndCleanData(csv)
    /\ UNCHANGED <<extraVars, csv, recleaned, agg, dashVars, batchVars>>

NextDash ==
    \/ \E page \in TablePages : Navigate(page)
    \/ ReplaceFile
    \/ CallLoadAndCleanData

SpecDash == InitDash /\ [][NextDash]_vars

(***************************************************************************)
(* Inputs of the batch specification: the files made of some of the rows   *)
(* of a sample file, or no file.                                           *)
(***************************************************************************)
MaxRuns == 3

BatchColumns ==
    {"Brand", "Product_Name", "Purchase_Date", "Purchase_Amount", "Market_Price",
     "Rating"}

BatchRow(brand, product, date, amount, price, rating) ==
    [c \in BatchColumns |->
        CASE c = "Brand" -> brand
          [] c = "Product_Name" -> product
          [] c = "Purchase_Date" -> date
          [] c = "Purchase_Amount" -> amount
          [] c = "Market_Price" -> price
          [] c = "Rating" -> rating]

BatchRows ==
    <<BatchRow("Apple", "iPhone", "2024-01-03", "5", "999", "4"),
      BatchRow("Apple", "iPhone", "2024-02-10", "7", "999", "4"),
      BatchRow("Apple", "iPad", "2024-02-11", "5", "", ""),
      BatchRow("Samsung", "Galaxy", "2024-03-05", "7", "799", "3"),
      BatchRow("Apple", "iPhone", "", "5", "999", "4")>>

BatchInputs ==
    {CsvFile(BatchColumns, RowsAt(BatchRows, I, 1)) : I \in SUBSET (1..Len(BatchRows))}
        \cup {MissingFile}

(***************************************************************************)
(* The batch specification: runs of one batch script, one after another,   *)
(* and loads of the Predictions page of the dashboard, which reads the     *)
(* forecast images and then the summaries.  The two processes share only   *)
(* the files, and nothing orders their steps.                              *)
(***************************************************************************)
InitBatch ==
    /\ csv \in BatchInputs
    /\ CleanAtRest
    /\ DashAtRest
    /\ job \in Jobs
    /\ BatchAtRest
    /\ ExtraAtRest

\* The script is started.
StartRun ==
    /\ pc = "idle"
    /\ run < MaxRuns
    /\ run' = run + 1
    /\ pc' = "started"
    /\ outcome' = "running"
    /\ fits' = <<>>
    /\ forecast' = <<>>
    /\ before' = [plot |-> plotFile, summary |-> summaryFile]
    /\ UNCHANGED <<extraVars, csv, cleanVars, dashVars, job, summarized, plotFile, summaryFile, view>>

\* Read, filter, aggregate, fit and predict; an exception ends the run.
FitForecasts ==
    /\ pc = "started"
    /\ LET r == Forecasts(job, csv)
       IN /\ fits' = r.fits
          /\ forecast' = r.forecast
          /\ pc' = IF r.exc = "" THEN "fitted" ELSE "idle"
          /\ outcome' = IF r.exc = "" THEN outcome ELSE "uncaught"
    /\ UNCHANGED <<extraVars, csv, cleanVars, dashVars, job, run, before, summarized, plotFile,
                   summaryFile, view>>

\* savefig with the path of another job's plot.
SavePlotToOtherPath ==
    /\ pc = "fitted"
    /\ plotFile' = [plotFile EXCEPT !["sales"] = run]
    /\ pc' = "plotted"
    /\ UNCHANGED <<extraVars, csv, cleanVars, dashVars, job, run, outcome, fits, forecast, before, summarized,
                   summaryFile, view>>

\* plt.savefig(plot_file).
SavePlot ==
    /\ pc = "fitted"
    /\ plotFile' = [plotFile EXCEPT ![TopicOf(job)] = run]
    /\ pc' = "plotted"
    /\ UNCHANGED <<extraVars, csv, cleanVars, dashVars, job, run, outcome, fits, forecast, before, summarized,
                   summaryFile, view>>

\* The summary is written: by apple_ratings directly, by the other two
\* after chat returned.
WriteSummary ==
    /\ pc = "plotted"
    /\ summaryFile' = [summaryFile EXCEPT ![TopicOf(job)] = run]
    /\ summarized' = summarized \cup {run}
    /\ pc' = "idle"
    /\ outcome' = "ok"
    /\ UNCHANGED <<extraVars, csv, cleanVars, dashVars, job, run, fits, forecast, before, plotFile, view>>

\* chat raises; the except clause prints and the script ends.
ChatFails ==
    /\ pc = "plotted"
    /\ job # "apple_ratings"
    /\ pc' = "idle"
    /\ outcome' = "caught"
    /\ UNCHANGED <<extraVars, csv, cleanVars, dashVars, job, run, fits, forecast, before, summarized, plotFile,
                   summaryFile, view>>

\* app.load_forecast_images on the Predictions page.
LoadForecastImages ==
    /\ view.stage # "images"
    /\ view' = [stage |-> "images", plot |-> plotFile, summary |-> NoFiles,
                plotAt |-> At(run, pc), sumAt |-> At(0, "idle")]
    /\ UNCHANGED <<extraVars, csv, cleanVars, dashVars, job, pc, run, outcome, fits, forecast, before,
                   summarized, plotFile, summaryFile>>

\* app.load_summary_data on the Predictions page; the page is then drawn.
LoadSummaryData ==
    /\ view.stage = "images"
    /\ view' = [view EXCEPT !.stage = "shown", !.summary = summaryFile,
                            !.sumAt = At(run, pc)]
    /\ UNCHANGED <<extraVars, csv, cleanVars, dashVars, job, pc, run, outcome, fits, forecast, before,
                   summarized, plotFile, summaryFile>>

NextBatch ==
    \/ StartRun
    \/ FitForecasts
    \/ SavePlot
    \/ WriteSummary
    \/ ChatFails
    \/ LoadForecastImages
    \/ LoadSummaryData

SpecBatch == InitBatch /\ [][NextBatch]_vars

(***************************************************************************)
(* Inputs of the season specification: Apple rows of every day of a leap   *)
(* year, alone or next to a row dated at the edge of a season or undated.  *)
(***************************************************************************)
TwoDigits(n) == CharAt(DigitChars, (n \div 10) + 1) \o CharAt(DigitChars, (n % 10) + 1)

DayToken(m, d) == "2024-" \o TwoDigits(m) \o "-" \o TwoDigits(d)

YearTokens ==
    {DayToken(m, d) : m \in 1..12, d \in 1..31}
        \ {"2024-02-30", "2024-02-31", "2024-04-31", "2024-06-31",
           "2024-09-31", "2024-11-31"}

EdgeTokens ==
    {"2024-01-07", "2024-01-08", "2024-09-15", "2024-09-16", "2024-12-19",
     "2024-12-20", ""}

SeasonRow(date) == [BaseRow EXCEPT !["Purchase_Date"] = date]

SeasonInputs ==
    {CsvFile(CleanColumns, <<SeasonRow(a)>>) : a \in YearTokens}
        \cup {CsvFile(CleanColumns, <<SeasonRow(a), SeasonRow(b)>>) :
                  a \in YearTokens, b \in EdgeTokens}
        \cup {CsvFile(CleanColumns, <<SeasonRow(b), SeasonRow(a)>>) :
                  a \in YearTokens, b \in EdgeTokens}

(***************************************************************************)
(* The season specification: the loader, then the Season column that       *)
(* create_seasonal_analysis (and the Market Insights page) computes.       *)
(***************************************************************************)
InitSeason ==
    /\ csv \in SeasonInputs
    /\ CleanAtRest
    /\ DashAtRest
    /\ job = "none"
    /\ BatchAtRest
    /\ ExtraAtRest

\* apple_df_copy["Season"] = apple_df_copy.apply(label_season, axis=1)
ApplyLabelSeason ==
    /\ loaded.k = "pair"
    /\ "Purchase_Date" \in loaded.apple.cols
    /\ "Purchase_Amount" \in loaded.apple.cols
    /\ AnyDate(loaded.apple)
    /\ labels = <<>>
    /\ labels' = [i \in 1..NRows(loaded.apple) |-> LabelSeason(loaded.apple.rows[i])]
    /\ UNCHANGED <<launcher, share, appleSales, emptySummaries, csv, cleanVars, dashVars, batchVars>>

NextSeason ==
    \/ LoadAndClean
    \/ ApplyLabelSeason

SpecSeason == InitSeason /\ [][NextSeason]_vars

(***************************************************************************)
(* Inputs of the market share specification: files of at most MaxRows rows *)
(* of three brands (one of them missing) and three amounts (one missing).  *)
(***************************************************************************)
ShareRow(brand, amount) ==
    [BaseRow EXCEPT !["Brand"] = brand, !["Purchase_Amount"] = amount]

SharePool == {ShareRow(b, a) : b \in {"Apple", "Samsung", ""}, a \in {"0", "5", ""}}

ShareInputs ==
    {CsvFile(CleanColumns, rows) :
        rows \in UNION {[1..n -> SharePool] : n \in 0..MaxRows}}

(***************************************************************************)
(* The market share specification: the loader, then the market share of    *)
(* the table it returned.                                                  *)
(***************************************************************************)
InitShare ==
    /\ csv \in ShareInputs
    /\ CleanAtRest
    /\ DashAtRest
    /\ job = "none"
    /\ BatchAtRest
    /\ ExtraAtRest

\* utils.create_market_share_chart of the cleaned table.
CreateMarketShareChart ==
    /\ loaded.k = "pair"
    /\ share' = MarketShare(loaded.df)
    /\ UNCHANGED <<labels, launcher, appleSales, emptySummaries, csv, cleanVars, dashVars, batchVars>>

NextShare ==
    \/ LoadAndClean
    \/ CreateMarketShareChart

SpecShare == InitShare /\ [][NextShare]_vars

(***************************************************************************)
(* The Predictions and the Reports page.  A page shows elements: the image *)
(* of a topic, the text of its summary, the text load_summary_data puts in *)
(* the place of a missing summary, or a warning.                           *)
(***************************************************************************)
Element(kind, topic) == kind \o ":" \o topic

\* load_summary_data with an empty entry for a file that is not there.
SummaryEntryEmptyWhenMissing(files, t) ==
    IF files[t] = 0 \/ t \in emptySummaries THEN "empty_text" ELSE "summary_text"

\* load_summary_data: the text of the file, which may be empty, or
\* "Summary file not found: <path>".
SummaryEntry(files, t) ==
    IF files[t] = 0 THEN "not_found_text"
    ELSE IF t \in emptySummaries THEN "empty_text"
    ELSE "summary_text"

\* if summaries.get(key): an empty text is false.
Truthy(entry) == entry # "empty_text"

\* One tab of the Predictions page: the image when there is one, and the
\* summary entry when it is not empty.
PredictionsTab(images, summaries, t) ==
    (IF images[t] # 0 THEN {Element("image", t)} ELSE {})
        \cup (IF Truthy(SummaryEntry(summaries, t))
              THEN {Element(SummaryEntry(summaries, t), t)} ELSE {})

\* One expander of the Reports page: the entry, or a warning in the place
\* of an empty one.
ReportsExpander(summaries, t) ==
    IF Truthy(SummaryEntry(summaries, t))
    THEN {Element(SummaryEntry(summaries, t), t)}
    ELSE {Element("warning", t)}

\* The part of the combined report for one topic: its entry under a
\* heading, whatever the entry is.
CombinedReportPart(summaries, t) ==
    Element("combined_" \o SummaryEntry(summaries, t), t)

(***************************************************************************)
(* The pages specification: any combination of output files on disk, and   *)
(* loads of the Predictions and of the Reports page.                       *)
(***************************************************************************)
InitPages ==
    /\ csv = MissingFile
    /\ CleanAtRest
    /\ DashAtRest
    /\ job = "none"
    /\ pc = "idle" /\ run = 0 /\ outcome = "none" /\ fits = <<>> /\ forecast = <<>>
    /\ before = [plot |-> NoFiles, summary |-> NoFiles]
    /\ summarized = {}
    /\ plotFile \in [Topics -> {0, 1}]
    /\ summaryFile \in [Topics -> {0, 1}]
    /\ view = NoView
    /\ labels = <<>> /\ launcher = NoLaunch /\ share = NotMade("share")
    /\ appleSales = NotRun
    /\ emptySummaries \in SUBSET {t \in Topics : summaryFile[t] # 0}

\* The tabs of the Predictions page are drawn from what the two loaders
\* returned.
RenderPredictions ==
    /\ view.stage = "shown"
    /\ nav' = [NoNav EXCEPT
                 !.page = "Predictions",
                 !.charts = UNION {PredictionsTab(view.plot, view.summary, t) : t \in Topics}]
    /\ UNCHANGED <<extraVars, csv, cleanVars, cacheData, cacheApple, batchVars>>

\* The Reports page: load_summary_data, then the four expanders.
ReportsPage ==
    /\ nav' = [NoNav EXCEPT
                 !.page = "Reports",
                 !.charts = UNION {ReportsExpander(summaryFile, t) : t \in Topics}]
    /\ UNCHANGED <<extraVars, csv, cleanVars, cacheData, cacheApple, batchVars>>

\* The Reports page run again by a click on "Generate Combined Report":
\* the expanders, then the download button with the combined report.
GenerateCombinedReport ==
    /\ nav.page = "Reports"
    /\ nav' = [NoNav EXCEPT
                 !.page = "Reports",
                 !.charts = UNION {ReportsExpander(summaryFile, t) : t \in Topics}
                               \cup {CombinedReportPart(summaryFile, t) : t \in Topics}
                               \cup {Element("download_button", "combined")}]
    /\ UNCHANGED <<extraVars, csv, cleanVars, cacheData, cacheApple, batchVars>>

NextPages ==
    \/ LoadForecastImages
    \/ LoadSummaryData
    \/ RenderPredictions
    \/ ReportsPage
    \/ GenerateCombinedReport

SpecPages == InitPages /\ [][NextPages]_vars

(***************************************************************************)
(* The brand filters: the loader's and a batch job's, applied to the same  *)
(* file of at most MaxRows rows whose brand and product name vary.         *)
(***************************************************************************)
FilterColumns == {"Brand", "Product_Name", "Purchase_Date"}

FilterBrands == {"APPLE", "Apple Inc", "Samsung", ""}
FilterProducts == {"Pineapple", "iPad", ""}

FilterRow(brand, product) ==
    [c \in FilterColumns |->
        CASE c = "Brand" -> brand
          [] c = "Product_Name" -> product
          [] c = "Purchase_Date" -> "2024-01-03"]

FilterPool == {FilterRow(b, p) : b \in FilterBrands, p \in FilterProducts}

FilterInputs ==
    {CsvFile(FilterColumns, rows) :
        rows \in UNION {[1..n -> FilterPool] : n \in 0..MaxRows}}

InitFilter ==
    /\ csv \in FilterInputs
    /\ CleanAtRest
    /\ DashAtRest
    /\ job = "none"
    /\ BatchAtRest
    /\ ExtraAtRest

\* A batch job from read_csv to apple_sales = df[mask_brand | mask_product].
FilterAppleSales ==
    /\ appleSales = NotRun
    /\ appleSales' = Frame(AppleSales(csv))
    /\ UNCHANGED <<labels, launcher, share, emptySummaries, csv, cleanVars, dashVars, batchVars>>

NextFilter ==
    \/ LoadAndClean
    \/ FilterAppleSales

SpecFilter == InitFilter /\ [][NextFilter]_vars

(***************************************************************************)
(* The two loaders side by side: utils.load_and_clean_data and, in a       *)
(* dashboard process, app.load_apple_data, on one input file that stays    *)
(* as it is.                                                               *)
(***************************************************************************)
LoaderPool ==
    {[BaseRow EXCEPT !["Brand"] = b] : b \in {"Apple", "Samsung", ""}}
        \cup {[BaseRow EXCEPT !["Purchase_Amount"] = a] : a \in {"", "bad"}}
        \cup {[BaseRow EXCEPT !["Rating"] = "bad"], [BaseRow EXCEPT !["Purchase_Date"] = ""]}

LoaderInputs ==
    {CsvFile(CleanColumns, rows) :
        rows \in UNION {[1..n -> LoaderPool] : n \in 0..MaxRows}}
        \cup DashInputs

InitLoaders ==
    /\ csv \in LoaderInputs
    /\ CleanAtRest
    /\ DashAtRest
    /\ job = "none"
    /\ BatchAtRest
    /\ ExtraAtRest

NextLoaders ==
    \/ LoadAndClean
    \/ Navigate("Overview")

SpecLoaders == InitLoaders /\ [][NextLoaders]_vars

(***************************************************************************)
(* The launcher (run_dashboard.py).  Its environment is the working        *)
(* directory and the modules the interpreter can import: those of the      *)
(* installed distributions, and any other module on the path.              *)
(***************************************************************************)
RequiredPackages ==
    <<"streamlit", "pandas", "numpy", "matplotlib", "seaborn", "plotly", "Pillow">>

RequiredFiles ==
    {"Walmart_customer_fixed.csv",
     "apple_ratings/apple_ratings_summary.txt",
     "apple_sales/apple_sales_summary.txt",
     "price_elasticity/price_elasticity_summary.txt",
     "product_domination/product_domination_summary.txt"}

ServerPort == 8501

\* The module a distribution installs: Pillow installs PIL, the others a
\* module of their own name.
ModuleOf(dist) == IF dist = "Pillow" THEN "PIL" ELSE dist

\* __import__(name) does not raise ImportError.
Importable(l, name) == name \in {ModuleOf(d) : d \in l.installed} \cup l.stray

\* check_requirements: the names it could not import, in order.
MissingPackages(l) ==
    SelectSeq(RequiredPackages, LAMBDA name : ~Importable(l, name))

\* check_data_files: the files that do not exist.
MissingFiles(l) == RequiredFiles \ l.files

Launchers ==
    [pc : {"main"}, appPy : BOOLEAN,
     installed : SUBSET {RequiredPackages[i] : i \in 1..Len(RequiredPackages)},
     stray : SUBSET {"Pillow"}, files : SUBSET RequiredFiles,
     calls : {<<>>}, requirements : {"none"}, dataFiles : {"none"}, port : {0}]

(***************************************************************************)
(* The launcher specification: one run of main in any environment.         *)
(***************************************************************************)
InitLaunch ==
    /\ csv = MissingFile
    /\ CleanAtRest
    /\ DashAtRest
    /\ job = "none"
    /\ BatchAtRest
    /\ labels = <<>> /\ share = NotMade("share") /\ appleSales = NotRun
    /\ emptySummaries = {}
    /\ launcher \in Launchers

\* main: return when app.py is not in the working directory.
CheckAppPy ==
    /\ launcher.pc = "main"
    /\ launcher' = [launcher EXCEPT
                      !.pc = IF launcher.appPy THEN "requirements" ELSE "done"]
    /\ UNCHANGED <<labels, share, appleSales, emptySummaries, csv, cleanVars, dashVars, batchVars>>

\* check_requirements(); main returns when it gave False.
CheckRequirements ==
    /\ launcher.pc = "requirements"
    /\ LET ok == Len(MissingPackages(launcher)) = 0
       IN launcher' = [launcher EXCEPT
                         !.calls = Append(@, "check_requirements"),
                         !.requirements = IF ok THEN "True" ELSE "False",
                         !.pc = IF ok THEN "data_files" ELSE "done"]
    /\ UNCHANGED <<labels, share, appleSales, emptySummaries, csv, cleanVars, dashVars, batchVars>>

\* check_data_files() with main returning when it gave False.
CheckDataFilesOrReturn ==
    /\ launcher.pc = "data_files"
    /\ LET ok == MissingFiles(launcher) = {}
       IN launcher' = [launcher EXCEPT
                         !.calls = Append(@, "check_data_files"),
                         !.dataFiles = IF ok THEN "True" ELSE "False",
                         !.pc = IF ok THEN "launch" ELSE "done"]
    /\ UNCHANGED <<labels, share, appleSales, emptySummaries, csv, cleanVars, dashVars, batchVars>>

\* check_data_files(); main does not look at what it returned.
CheckDataFiles ==
    /\ launcher.pc = "data_files"
    /\ LET ok == MissingFiles(launcher) = {}
       IN launcher' = [launcher EXCEPT
                         !.calls = Append(@, "check_data_files"),
                         !.dataFiles = IF ok THEN "True" ELSE "False",
                         !.pc = "launch"]
    /\ UNCHANGED <<labels, share, appleSales, emptySummaries, csv, cleanVars, dashVars, batchVars>>

\* launch_dashboard: subprocess.run of streamlit on the fixed port.
LaunchDashboard ==
    /\ launcher.pc = "launch"
    /\ launcher' = [launcher EXCEPT
                      !.calls = Append(@, "launch_dashboard"),
                      !.port = ServerPort,
                      !.pc = "done"]
    /\ UNCHANGED <<labels, share, appleSales, emptySummaries, csv, cleanVars, dashVars, batchVars>>

NextLaunch ==
    \/ CheckAppPy
    \/ CheckRequirements
    \/ CheckDataFiles
    \/ LaunchDashboard

SpecLaunch == InitLaunch /\ [][NextLaunch]_vars

(***************************************************************************)
(* Claims about the loader/cleaner and the aggregations, under SpecClean.  *)
(***************************************************************************)
\* The table the cleaning steps start from, after deduplication: its rows
\* are the rows of the cleaned table, in order.
Deduplicated == DropDuplicates(ReadCsv(csv))

Unparseable(c) == c.k = "str" /\ ~IsNumeric(c.s)

\* C1: when the loader returns a table with a Purchase_Amount column, no
\* Purchase_Amount of the table or of its Apple subset is null; a value that
\* was missing or unparseable in the input is exactly 1, and a value that
\* parsed as a number is that number.
C1_AmountNullsBecomeOne ==
    (loaded.k = "pair" /\ "Purchase_Amount" \in loaded.df.cols) =>
        LET deduped == Deduplicated.rows IN
        /\ NRows(loaded.df) = Len(deduped)
        /\ \A i \in 1..NRows(loaded.df) :
              LET in == deduped[i]["Purchase_Amount"]
                  out == loaded.df.rows[i]["Purchase_Amount"]
              IN /\ out.k = "num"
                 /\ (IsNull(in) \/ Unparseable(in)) => out.n = 1
                 /\ in.k = "num" => out.n = in.n
                 /\ (in.k = "str" /\ IsNumeric(in.s)) => out.n = ToNumber(in.s)
        /\ \A i \in 1..NRows(loaded.apple) :
              loaded.apple.rows[i]["Purchase_Amount"].k = "num"

\* C1 witness: a returned table that keeps Purchase_Amount and whose input
\* held a missing, an unparseable and a numeric amount.
C1_Witness ==
    /\ loaded.k = "pair"
    /\ "Purchase_Amount" \in loaded.df.cols
    /\ \E i, j, l \in 1..NRows(Deduplicated) :
          /\ IsNull(Deduplicated.rows[i]["Purchase_Amount"])
          /\ Unparseable(Deduplicated.rows[j]["Purchase_Amount"])
          /\ Deduplicated.rows[l]["Purchase_Amount"].k = "str"
          /\ IsNumeric(Deduplicated.rows[l]["Purchase_Amount"].s)
          /\ loaded.df.rows[i]["Purchase_Amount"] = Num(1)
          /\ loaded.df.rows[j]["Purchase_Amount"] = Num(1)

\* C2: no column of the table the loader returns has more than half of its
\* values null, the nulls counted in the returned table.
C2_NoSparseColumnReturned ==
    loaded.k = "pair" =>
        \A c \in loaded.df.cols : 2 * NullCount(loaded.df, c) <= NRows(loaded.df)

\* C3: the cleaning steps applied to the cleaned table yield the same
\* table, rows and columns.
C3_CleaningIdempotent ==
    recleaned.k = "pair" => recleaned.df = loaded.df

\* C9: the buckets of every date-keyed aggregation of the Apple subset sum
\* to the total Purchase_Amount of the Apple rows that have a date.
C9_NullDatesInNoBucket ==
    agg.made =>
        BucketTotal(agg.buckets) =
            SumAmount(loaded.apple,
                      {i \in 1..NRows(loaded.apple) : HasDate(loaded.apple.rows[i])})

\* C13: the weekday aggregation of an Apple subset that has the date and
\* the amount column is seven buckets, Monday to Sunday; the bucket of a
\* weekday with dated rows holds the sum of their amounts, and the bucket
\* of a weekday without rows is there with no value.
C13_SevenWeekdayBuckets ==
    (/\ agg.kind = "weekday"
     /\ "Purchase_Date" \in loaded.apple.cols
     /\ "Purchase_Amount" \in loaded.apple.cols) =>
        /\ agg.made
        /\ Len(agg.buckets) = 7
        /\ \A w \in 1..7 :
              LET rowsOn == {i \in 1..NRows(loaded.apple) :
                               /\ HasDate(loaded.apple.rows[i])
                               /\ DayName(loaded.apple.rows[i]["Purchase_Date"].n)
                                      = WeekdayNames[w]}
              IN /\ agg.buckets[w].key = WeekdayNames[w]
                 /\ agg.buckets[w].present <=> rowsOn # {}
                 /\ rowsOn # {} => agg.buckets[w].v = SumAmount(loaded.apple, rowsOn)

\* C13 witness: rows of Wednesday 3 January and Tuesday 20 August 2024, the
\* other five weekdays without a value.
C13_Witness ==
    /\ agg.kind = "weekday" /\ agg.made
    /\ NRows(loaded.apple) = 3
    /\ agg.buckets[2] = Bucket("Tuesday", TRUE, 5)
    /\ agg.buckets[3] = Bucket("Wednesday", TRUE, 10)
    /\ \A w \in {1, 4, 5, 6, 7} : ~agg.buckets[w].present

(***************************************************************************)
(* Claims about the dashboard, under SpecDash.                             *)
(***************************************************************************)
\* C4: no run of a table page ends in a KeyError: a column absent from the
\* loaded table makes the loader and the page skip what depends on it.
C4_MissingColumnNeverRaises ==
    nav.page # "none" => (nav.res.exc # "KeyError" /\ nav.exc # "KeyError")

\* C7: every call of load_apple_data after the first in the process returns
\* the cached result and reads no file.
C7_LaterCallsHitCache ==
    nav.later => (nav.hadApple /\ nav.res.k # "raise" /\ nav.reads = 0)

\* C8 as stated: whenever a table page runs while the input file does not
\* exist, the loader returns (None, None) and the page shows no chart and
\* does not raise.
C8_MissingFileShowsNothing ==
    (nav.page # "none" /\ nav.fileSt = "missing") =>
        (nav.res = NonePair /\ nav.charts = {} /\ nav.exc = "")

\* C8 amended: when the input file does not exist and the process holds no
\* cached result of load_data, load_apple_data returns (None, None) and the
\* page shows no chart and does not raise; utils.load_and_clean_data, which
\* has no cache, returns (None, None) whenever the file does not exist.
C8_MissingFileUncachedShowsNothing ==
    /\ (nav.page # "none" /\ nav.fileSt = "missing" /\ ~nav.hadData) =>
          (nav.res = NonePair /\ nav.charts = {} /\ nav.exc = "")
    /\ (loaded # NotRun /\ csv.st = "missing") => loaded = NonePair

\* C8 witness: a page ran on a missing file with nothing cached and got the
\* null pair, and the utils loader ran on the missing file too.
C8_Witness ==
    /\ nav.page # "none" /\ nav.fileSt = "missing" /\ ~nav.hadData
    /\ nav.res = NonePair
    /\ csv.st = "missing" /\ loaded = NonePair

\* C21: once load_data has returned (a table, or None for a missing file)
\* its cache entry never changes again, and every later navigation reads
\* no file and gets the result the navigation before it got, whatever has
\* happened to the input file in between.
C21_LoaderCacheNeverInvalidated ==
    [][cacheData.hit =>
          /\ cacheData' = cacheData
          /\ nav' # nav =>
                /\ nav'.hadData
                /\ nav'.reads = 0
                /\ nav'.res = nav.res]_vars

\* C21 witness: load_data returned None for a missing file, the file was
\* then created, and a later navigation still got the null pair; nothing
\* was read.
C21_Witness ==
    /\ nav.hadData
    /\ nav.fileSt = "ok"
    /\ csv.st = "ok"
    /\ cacheData = Entry(NoFrame)
    /\ nav.res = NonePair
    /\ nav.reads = 0

(***************************************************************************)
(* Claims about the batch jobs and the handoff, under SpecBatch.           *)
(***************************************************************************)
\* C5: a run that a forecasting or summarization failure ended did not end
\* in an uncaught exception, and left the plot and the summary of earlier
\* runs as they were when it started.
C5_FailureCaughtOutputsKept ==
    (pc = "idle" /\ outcome \in {"uncaught", "caught"}) =>
        /\ outcome = "caught"
        /\ plotFile = before.plot
        /\ summaryFile = before.summary

\* The page load read both kinds of file between the two writes of a run.
BetweenWrites ==
    /\ view.stage = "shown"
    /\ view.plotAt.pc = "plotted"
    /\ view.sumAt = view.plotAt

\* The last run before run n that wrote its summary, 0 when there is none.
LastSummaryBefore(n) ==
    LET earlier == {r \in summarized : r < n}
    IN IF earlier = {} THEN 0
       ELSE CHOOSE r \in earlier : \A q \in earlier : q <= r

\* C6 as stated: a page load between the two writes of run N shows the plot
\* of run N with the summary of run N-1 or the placeholder.
C6_PlotNewSummaryOfPreviousRun ==
    BetweenWrites =>
        /\ view.plot[TopicOf(job)] = view.plotAt.run
        /\ view.summary[TopicOf(job)] \in {view.plotAt.run - 1, 0}

\* C6 amended: a page load between the two writes of run N shows the plot
\* of run N with the summary of the most recent earlier run that wrote one,
\* or the placeholder when no earlier run wrote one.
C6_PlotNewSummaryOfLastWriter ==
    BetweenWrites =>
        /\ view.plot[TopicOf(job)] = view.plotAt.run
        /\ view.summary[TopicOf(job)] = LastSummaryBefore(view.plotAt.run)

\* C6 witness: a page load between the writes of the third run, after the
\* first run wrote its summary and the second did not.
C6_Witness ==
    /\ BetweenWrites
    /\ view.plotAt.run = 3
    /\ view.plot[TopicOf(job)] = 3
    /\ view.summary[TopicOf(job)] = 1

\* C10: every history handed to fit has at least two points.
C10_FitHasTwoPoints ==
    \A i \in 1..Len(fits) : fits[i] >= 2

\* C11: the forecast every job hands on as the next 6 months has exactly 6
\* dates, one per month in order, all after the last historical period of
\* its series.
C11_NextSixMonths ==
    pc = "plotted" =>
        LET texts == NextMonthsText(job, forecast) IN
        \A i \in 1..Len(texts) :
            /\ Len(texts[i]) = Periods
            /\ \A k \in 1..Len(texts[i]) :
                  LabelIndex(texts[i][k]) = LabelIndex(forecast[i].last) + k

(***************************************************************************)
(* Claims about the season label, under SpecSeason.                        *)
(***************************************************************************)
\* The label the rule gives a month and a day.
SeasonOf(m, d) ==
    CASE m = 1 /\ d \in 1..7 -> "New Year"
      [] m = 12 /\ d \in 20..31 -> "Christmas"
      [] m = 8 \/ (m = 9 /\ d \in 1..15) -> "Back-to-School"
      [] OTHER -> "Other"

\* C12: the Season of every dated row is the label of its month and day,
\* whatever the other rows are and wherever the row stands.
C12_SeasonOfMonthAndDay ==
    \A i \in 1..Len(labels) :
        LET c == loaded.apple.rows[i]["Purchase_Date"] IN
        c.k = "date" => labels[i] = SeasonOf(MonthOf(c.n), DayOf(c.n))

\* C12 witness: a table whose rows of 15 and 16 September carry
\* "Back-to-School" and "Other", whichever comes first.
C12_Witness ==
    /\ Len(labels) = 2
    /\ loaded.apple.rows[1]["Purchase_Date"] = Date(20240916)
    /\ loaded.apple.rows[2]["Purchase_Date"] = Date(20240915)
    /\ labels = <<"Other", "Back-to-School">>

(***************************************************************************)
(* Claims about the market share, under SpecShare.                         *)
(***************************************************************************)
\* 100 times the sum of the shares: the sum of 100 * v over the brands.
RECURSIVE ShareNumerators(_)
ShareNumerators(bs) ==
    IF Len(bs) = 0 THEN 0 ELSE bs[1].v + ShareNumerators(Tail(bs))

\* The amounts of the rows of brand name, summed.
AmountOfBrand(df, name) ==
    SumAmount(df, {i \in 1..NRows(df) : df.rows[i]["Brand"] = Str(name)})

\* The share of every brand is 100 times its total over the total of all
\* brands, and the shares sum to 100.
SharesAreExact ==
    LET bs == share.buckets
        branded == {i \in 1..NRows(loaded.df) : ~IsNull(loaded.df.rows[i]["Brand"])}
        grand == SumAmount(loaded.df, branded)
    IN /\ grand # 0
       /\ {bs[i].key : i \in 1..Len(bs)} =
              {loaded.df.rows[i]["Brand"].s : i \in branded}
       /\ \A i \in 1..Len(bs) :
              /\ bs[i].present
              /\ bs[i].v = 100 * AmountOfBrand(loaded.df, bs[i].key)
              /\ bs[i].of = grand
       /\ ShareNumerators(bs) = 100 * grand

\* C14 as stated: for every cleaned table with the two columns the shares
\* are the brands' parts of the total and sum to 100.
C14_SharesSumTo100 ==
    share.made => SharesAreExact

\* C14 amended: the same, for every such table whose total is not 0.
C14_SharesSumTo100OfNonZeroTotal ==
    (share.made /\ SumAmount(loaded.df, {i \in 1..NRows(loaded.df) :
                                ~IsNull(loaded.df.rows[i]["Brand"])}) # 0) =>
        SharesAreExact

\* C14 witness: one Apple row of 5 next to two Samsung rows of 5 and 1:
\* shares 500/11 and 600/11 per cent.
C14_Witness ==
    /\ share.made
    /\ \E i, j \in 1..Len(share.buckets) :
          /\ share.buckets[i] = [key |-> "Apple", present |-> TRUE, v |-> 500, of |-> 11]
          /\ share.buckets[j] = [key |-> "Samsung", present |-> TRUE, v |-> 600, of |-> 11]

(***************************************************************************)
(* Claims about the Predictions and the Reports page, under SpecPages.     *)
(***************************************************************************)
\* What a page shows for a topic.
ShownFor(t) ==
    {k \in {"image", "summary_text", "not_found_text"} : Element(k, t) \in nav.charts}

\* C15: every load of the Predictions or the Reports page ends without an
\* exception, with an entry of each loader for each topic; a missing
\* summary has a message in its place, and so has a missing image: every
\* tab of the Predictions page shows two things, the image or the message
\* in its place and the summary or the message in its place.
C15_PlaceholderForMissingFile ==
    /\ nav.page \in {"Predictions", "Reports"} => nav.exc = ""
    /\ (nav.page = "Predictions" /\ view.stage = "shown") =>
          /\ DOMAIN view.plot = Topics /\ DOMAIN view.summary = Topics
          /\ \A t \in Topics :
                /\ view.summary[t] = 0 => "not_found_text" \in ShownFor(t)
                /\ Cardinality(ShownFor(t)) = 2

\* The rows of the Apple subset that carry the key of a bucket of the
\* last aggregation.
RowsOfKey(key) ==
    {i \in 1..NRows(loaded.apple) :
        LET row == loaded.apple.rows[i]
        IN CASE agg.kind = "monthly" ->
                   HasDate(row) /\ MonthLabel(MonthIndex(row["Purchase_Date"].n)) = key
             [] agg.kind = "season" -> LabelSeason(row) = key
             [] OTHER -> FALSE}

\* C18: a key appears in the result of grouping by month or by season
\* only if at least one record of the input has that key; a month without
\* records between two months with records does not appear.
C18_EmptyGroupsOmitted ==
    (agg.made /\ agg.kind \in {"monthly", "season"}) =>
        \A b \in 1..Len(agg.buckets) : RowsOfKey(agg.buckets[b].key) # {}

\* C19: a column of the file is dropped by the loader if and only if its
\* nulls among the deduplicated rows are more than half of the
\* deduplicated rows; a column that is null in exactly half of them is
\* kept, and the rows deduplication removed count in neither number.  The
\* loader returns no table exactly when the column it dropped is Brand.
C19_SparseRuleOnDeduplicatedRows ==
    LET deduped == Deduplicated.rows
        n == Len(deduped)
        nulls(c) == Cardinality({i \in 1..n : deduped[i][c].k = "null"})
        dropped(c) == 2 * nulls(c) > n
    IN /\ loaded.k = "pair" =>
             /\ NRows(loaded.df) = n
             /\ \A c \in csv.cols : c \notin loaded.df.cols <=> dropped(c)
       /\ (loaded.k = "none" /\ csv.st = "ok") => dropped("Brand")

\* C19 witness: the loader returned a table that keeps Rating, which is
\* null in exactly half of the deduplicated rows and in more than half of
\* the rows of the file, two of them equal.
C19_Witness ==
    /\ loaded.k = "pair"
    /\ "Rating" \in loaded.df.cols
    /\ LET deduped == Deduplicated.rows
       IN /\ Len(deduped) < Len(csv.rows)
          /\ 2 * Cardinality({i \in 1..Len(deduped) : deduped[i]["Rating"].k = "null"})
                = Len(deduped)
          /\ 2 * Cardinality({i \in 1..Len(csv.rows) : csv.rows[i]["Rating"] = ""})
                > Len(csv.rows)

\* The brand and the product name of a row, the product name only when
\* the table still has the column.
NamesOf(t, i) ==
    <<t.rows[i]["Brand"],
      IF "Product_Name" \in t.cols THEN t.rows[i]["Product_Name"] ELSE Null>>

\* C23: on the table read from the file, every row the dashboard's rule
\* selects is selected by the batch jobs' rule; and every row of the
\* dashboard's Apple subset is, by brand and product name, a row of the
\* batch job's Apple subset of the same file, which has at least as many
\* rows.
C23_ExactRuleWithinSubstringRule ==
    /\ csv.st = "ok" =>
          \A i \in 1..Len(csv.rows) :
              LET row == ReadCsv(csv).rows[i]
              IN IsAppleBrand(row) => IsAppleSale(row)
    /\ (loaded.k = "pair" /\ appleSales.k = "df") =>
          /\ NRows(loaded.apple) <= NRows(appleSales.df)
          /\ \A i \in 1..NRows(loaded.apple) :
                \E j \in 1..NRows(appleSales.df) :
                    /\ appleSales.df.rows[j]["Brand"] = loaded.apple.rows[i]["Brand"]
                    /\ "Product_Name" \in loaded.apple.cols =>
                          NamesOf(appleSales.df, j) = NamesOf(loaded.apple, i)

\* C23 witness: both subsets of one file are there, the dashboard's has a
\* row, and the batch job's has a row of a brand that is not "apple",
\* which the dashboard's does not have.
C23_Witness ==
    /\ loaded.k = "pair"
    /\ appleSales.k = "df"
    /\ NRows(loaded.apple) > 0
    /\ \E j \in 1..NRows(appleSales.df) :
          /\ ~IsAppleBrand(appleSales.df.rows[j])
          /\ \A i \in 1..NRows(loaded.apple) :
                loaded.apple.rows[i]["Brand"] # appleSales.df.rows[j]["Brand"]

\* The combined report has been generated on the Reports page.
CombinedReportShown == Element("download_button", "combined") \in nav.charts

\* C24: on the Reports page the warning of a topic is shown exactly when
\* the topic's summary file exists and is empty; for a missing file the
\* "Summary file not found" text is the body of the report, with no
\* warning, and it is in the combined report when that is generated.
C24_WarningOnlyForEmptySummary ==
    nav.page = "Reports" =>
        \A t \in Topics :
            /\ Element("warning", t) \in nav.charts
                  <=> (summaryFile[t] # 0 /\ t \in emptySummaries)
            /\ summaryFile[t] = 0 =>
                  /\ Element("not_found_text", t) \in nav.charts
                  /\ CombinedReportShown =>
                        Element("combined_not_found_text", t) \in nav.charts

\* C24 witness: the combined report has been generated with one summary
\* file missing, one there and empty, and one there with text.
C24_Witness ==
    /\ nav.page = "Reports"
    /\ CombinedReportShown
    /\ summaryFile["ratings"] = 0
    /\ summaryFile["sales"] # 0 /\ "sales" \in emptySummaries
    /\ summaryFile["price_elasticity"] # 0 /\ "price_elasticity" \notin emptySummaries
    /\ Element("warning", "sales") \in nav.charts
    /\ Element("combined_not_found_text", "ratings") \in nav.charts

(***************************************************************************)
(* Claims about the two loaders, under SpecLoaders.                        *)
(***************************************************************************)
\* The file has a Brand column that the sparse rule leaves in the table.
BrandStays ==
    /\ csv.st = "ok"
    /\ "Brand" \in csv.cols
    /\ LET deduped == Deduplicated.rows
       IN 2 * Cardinality({i \in 1..Len(deduped) : deduped[i]["Brand"].k = "null"})
             <= Len(deduped)

C16_LaunchesWhenAllInstalled ==
    (/\ launcher.pc = "done"
     /\ launcher.appPy
     /\ launcher.installed = {RequiredPackages[i] : i \in 1..Len(RequiredPackages)}) =>
        /\ launcher.calls = <<"check_requirements", "check_data_files", "launch_dashboard">>
        /\ launcher.port = 8501

\* C20: the server is started only if app.py exists and check_requirements
\* returned True; when either check fails main ends without starting it;
\* and when both pass main starts it whatever check_data_files returned.
C20_LaunchOnlyAfterChecks ==
    /\ ("launch_dashboard" \in {launcher.calls[i] : i \in 1..Len(launcher.calls)}
            \/ launcher.port # 0) =>
          (launcher.appPy /\ launcher.requirements = "True")
    /\ (launcher.pc = "done" /\ (~launcher.appPy \/ launcher.requirements = "False")) =>
          (launcher.port = 0 /\ launcher.dataFiles = "none")
    /\ (launcher.pc = "done" /\ launcher.appPy /\ launcher.requirements = "True") =>
          (launcher.port = 8501 /\ launcher.dataFiles \in {"True", "False"})

\* C20 witness: main has ended with the server started although
\* check_data_files returned False.
C20_Witness ==
    /\ launcher.pc = "done"
    /\ launcher.dataFiles = "False"
    /\ launcher.port = 8501

(***************************************************************************)
(* Claims about the brand filters, under SpecFilter.                       *)
(***************************************************************************)
\* The text t is "apple" in any mix of upper and lower case.
IsAppleIgnoringCase(t) ==
    /\ Len(t) = 5
    /\ \A i \in 1..5 : CharAt(t, i) \in {CharAt("apple", i), CharAt("APPLE", i)}

\* "apple" occurs in the text t, ignoring case; not in an empty text.
AppleOccursIn(t) == \E i \in 1..(Len(t) - 4) : IsAppleIgnoringCase(SubSeq(t, i, i + 4))

\* The text of a cell, a null cell being the empty text.
TextOf(c) == IF c.k = "str" THEN c.s ELSE ""

BrandAndProduct(rows) ==
    [i \in 1..Len(rows) |-> <<TextOf(rows[i]["Brand"]), TextOf(rows[i]["Product_Name"])>>]

\* C17: the loader's Apple subset is, in order, exactly the rows of the
\* cleaned table whose brand is a text that lowercased equals "apple" (a
\* null brand never matches, the product name is not looked at); a batch
\* job's Apple subset is, in order, exactly the rows of the file in whose
\* brand or product name "apple" occurs ignoring case, an empty field
\* counting as empty text.
C17_BrandFilterReturnsMatchingRows ==
    /\ loaded.k = "pair" =>
          LET df == loaded.df.rows
              match == {i \in 1..Len(df) :
                           /\ df[i]["Brand"].k = "str"
                           /\ IsAppleIgnoringCase(df[i]["Brand"].s)}
          IN /\ loaded.apple.cols = loaded.df.cols
             /\ loaded.apple.rows = RowsAt(df, match, 1)
    /\ appleSales.k = "df" =>
          LET match == {i \in 1..Len(csv.rows) :
                           \/ AppleOccursIn(csv.rows[i]["Brand"])
                           \/ AppleOccursIn(csv.rows[i]["Product_Name"])}
          IN /\ appleSales.df.cols = csv.cols
             /\ BrandAndProduct(appleSales.df.rows) =
                    [i \in 1..Cardinality(match) |->
                        <<RowsAt(csv.rows, match, 1)[i]["Brand"],
                          RowsAt(csv.rows, match, 1)[i]["Product_Name"]>>]

\* C17 witness: both filters have run on a file with a row of brand APPLE,
\* a row of a null brand, and a row of another brand whose product name
\* holds "apple"; the batch job kept more rows than the loader.
C17_Witness ==
    /\ loaded.k = "pair"
    /\ appleSales.k = "df"
    /\ \E i \in 1..Len(csv.rows) : csv.rows[i]["Brand"] = "APPLE"
    /\ \E i \in 1..Len(csv.rows) : csv.rows[i]["Brand"] = ""
    /\ \E i \in 1..Len(csv.rows) :
          csv.rows[i]["Brand"] = "Samsung" /\ csv.rows[i]["Product_Name"] = "Pineapple"
    /\ NRows(loaded.apple) = 1
    /\ NRows(appleSales.df) = 2

====
